---- MODULE Spec2Model ----
(***************************************************************************)
(* Model of the multi-engine search page of src/src/App.tsx: the source    *)
(* registry, the persisted preferences and custom sources, the window      *)
(* bookkeeping of openSearchWindow and the staggered timers of             *)
(* handleSearch.                                                           *)
(*                                                                         *)
(* Strings that the code only copies (ids, names, URL templates) are TLA+  *)
(* strings.  A query is a sequence of one-character strings, so that       *)
(* trim() and encodeURIComponent() are computed character by character.    *)
(* A URL is the sequence <<template>> \o encoded query characters.         *)
(* A window handle is an index into wins, the windows the host has ever    *)
(* created; 0 is the null handle.                                          *)
(***************************************************************************)
EXTENDS Integers, Sequences, FiniteSets, TLC

VARIABLES
  phase,            \* "init" (before the mount effect), "running", "crashed", "unmounted"
  storage,          \* localStorage: the two keys the component uses
  selectedEngines,  \* useState: source id -> boolean (a partial map)
  customSources,    \* useState: the list of custom sources
  searchQuery,      \* useState: the text of the query input
  isSearching,      \* useState
  searchWindows,    \* useRef: source id -> handle (0 = null)
  wins,             \* host: every window ever created, by handle
  front,            \* host: the handle last brought to the foreground (0 = none)
  timers,           \* host: pending setTimeout callbacks, in firing order
  clock,            \* host: the last value Date.now() returned
  lastCall,         \* history: the handler call that led to this state
  searches          \* history: the searches a specification chose to record

vars == <<phase, storage, selectedEngines, customSources, searchQuery, isSearching,
          searchWindows, wins, front, timers, clock, lastCall, searches>>

(***************************************************************************)
(* Bounds                                                                  *)
(***************************************************************************)
NumBuiltins == 2   \* how many of the built-in sources the model keeps
MaxCustom == 2     \* custom sources the user adds at most
MaxClock == 2      \* Date.now() ranges over 1..MaxClock in this session
MaxWindows == 2    \* windows the host creates at most; further opens are refused
MaxTimers == 2     \* pending setTimeout callbacks at most

\* The interval of the stagger, in ms.
StaggerMs == 100

(***************************************************************************)
(* Source registry                                                         *)
(***************************************************************************)
Source(id, name, url, custom) == [id |-> id, name |-> name, url |-> url, isCustom |-> custom]

AllDefaultSearchSources ==
  << Source("google", "Google", "https://www.google.com/search?q=", FALSE),
     Source("bing", "Bing", "https://www.bing.com/search?q=", FALSE),
     Source("google_scholar", "Google Scholar", "https://scholar.google.com/scholar?q=", FALSE),
     Source("pubmed", "PubMed", "https://pubmed.ncbi.nlm.nih.gov/?term=", FALSE),
     Source("semantic_scholar", "Semantic Scholar", "https://www.semanticscholar.org/search?q=", FALSE),
     Source("arxiv", "arXiv", "https://arxiv.org/search/?query=", FALSE),
     Source("research_gate", "ResearchGate", "https://www.researchgate.net/search/publication?q=", FALSE),
     Source("dblp", "DBLP", "https://dblp.org/search?q=", FALSE) >>

\* The built-in sources the model keeps: the first NumBuiltins of the list.
defaultSearchSources == SubSeq(AllDefaultSearchSources, 1, NumBuiltins)

\* The custom sources in place of the built-in ones, once there are any.
searchSourcesReplaced == IF customSources # <<>> THEN customSources ELSE defaultSearchSources

\* const searchSources = [...defaultSearchSources, ...customSources]
searchSources == defaultSearchSources \o customSources

Ids(list) == {list[i].id : i \in 1..Len(list)}

(***************************************************************************)
(* Strings: trim and encodeURIComponent                                    *)
(***************************************************************************)
WhiteSpace == {" ", "\t"}

RECURSIVE TrimStart(_)
TrimStart(q) ==
  IF q # <<>> /\ Head(q) \in WhiteSpace THEN TrimStart(Tail(q)) ELSE q

RECURSIVE TrimEnd(_)
TrimEnd(q) ==
  IF q # <<>> /\ q[Len(q)] \in WhiteSpace THEN TrimEnd(SubSeq(q, 1, Len(q) - 1)) ELSE q

\* String.prototype.trim
Trim(q) == TrimEnd(TrimStart(q))

\* The test without the trim.
QueryIsEmpty(q) == q = <<>>

\* !searchQuery.trim(): the empty string is falsy
QueryIsBlank(q) == Trim(q) = <<>>

EncodeChar(c) ==
  CASE c = " " -> "%20"
    [] c = "\t" -> "%09"
    [] c = "%" -> "%25"
    [] OTHER -> c

encodeURIComponent(q) == [i \in 1..Len(q) |-> EncodeChar(q[i])]

\* The query appended as typed, without encodeURIComponent.
SearchUrlUnencoded(source, query) == <<source.url>> \o query

\* `${source.url}${encodeURIComponent(query)}`
SearchUrl(source, query) == <<source.url>> \o encodeURIComponent(query)

\* `search_${source.id}`
WindowName(source) == "search_" \o source.id

(***************************************************************************)
(* JSON and localStorage                                                   *)
(***************************************************************************)
Absent == [kind |-> "absent"]          \* getItem returns null (or ""): falsy
Malformed == [kind |-> "malformed"]    \* a non-empty string JSON.parse throws on

JsBool(b) == IF b THEN "true" ELSE "false"

\* JSON.stringify of a preference map: its "key":literal members
StringifyPrefs(m) == [kind |-> "json", val |-> {<<k, JsBool(m[k])>> : k \in DOMAIN m}]

ParsePrefs(blob) ==
  LET keys == {p[1] : p \in blob.val}
  IN [k \in keys |-> (CHOOSE p \in blob.val : p[1] = k)[2] = "true"]

\* JSON.stringify of a list of sources
StringifySources(list) ==
  [kind |-> "json",
   val |-> [i \in 1..Len(list) |->
              [id |-> list[i].id, name |-> list[i].name, url |-> list[i].url,
               isCustom |-> JsBool(list[i].isCustom)]]]

ParseSources(blob) ==
  [i \in 1..Len(blob.val) |->
     Source(blob.val[i].id, blob.val[i].name, blob.val[i].url, blob.val[i].isCustom = "true")]

\* if (savedPreferences): null and "" are falsy
Truthy(blob) == blob.kind # "absent"

(***************************************************************************)
(* Preference maps                                                         *)
(***************************************************************************)
EmptyMap == [k \in {} |-> TRUE]

\* selectedEngines[id] as a JavaScript value
JsGet(m, id) == IF id \in DOMAIN m THEN JsBool(m[id]) ELSE "undefined"

\* selectedEngines[id] in a boolean context
IsSelected(m, id) == id \in DOMAIN m /\ m[id]

\* { ...m, [id]: v }
Spread(m, id, v) == [k \in DOMAIN m \cup {id} |-> IF k = id THEN v ELSE m[k]]

\* delete m[id]
DeleteKey(m, id) == [k \in DOMAIN m \ {id} |-> m[k]]

\* lastCall: the handler or callback whose call led to this state (none after the
\* user typed or closed a window, or an interval passed), the source id it was given,
\* what it observed (info), and
\* whether the step before it was the same handler on the same id (again).
NoCall == [op |-> "none", id |-> "", info |-> "", again |-> FALSE]
Call(op, id) == [op |-> op, id |-> id, info |-> "", again |-> FALSE]
Observed(op, id, info) ==
  [op |-> op, id |-> id, info |-> info, again |-> lastCall.op = op /\ lastCall.id = id]

(***************************************************************************)
(* Inputs                                                                  *)
(***************************************************************************)
\* What the user types into the query input (it starts empty).
Queries == { <<" ">>, <<"a">>, <<"a", " ", "b">> }

\* What the user submits in the add-source form (newSource.name, newSource.url).
Drafts ==
  { [name |-> "X", url |-> "https://x.com/?q="],
    [name |-> "Y", url |-> "https://example.com/search?q=%s"],
    [name |-> "", url |-> "https://x.com/?q="],
    [name |-> "X", url |-> ""] }

\* What localStorage holds under 'searchEnginePreferences' when the page loads.
InitPrefsBlobs ==
  { Absent, Malformed,
    StringifyPrefs([k \in {"google", "old_engine"} |-> k = "old_engine"]) }

\* What localStorage holds under 'customSearchSources' when the page loads.
\* The stored source was added in an earlier session, at time 0.
InitCustomBlobs ==
  { Absent, Malformed,
    StringifySources(<<Source("custom_0", "X", "https://x.com/?q=", TRUE)>>) }

(***************************************************************************)
(* Construction: the useState / useRef initial values (lines 17-30)        *)
(***************************************************************************)
Init ==
  /\ phase = "init"
  /\ \E p \in InitPrefsBlobs, c \in InitCustomBlobs : storage = [prefs |-> p, custom |-> c]
  /\ selectedEngines = EmptyMap
  /\ customSources = <<>>
  /\ searchQuery = <<>>
  /\ isSearching = FALSE
  /\ searchWindows = EmptyMap
  /\ wins = <<>>
  /\ front = 0
  /\ timers = <<>>
  /\ clock = 1
  /\ lastCall = NoCall
  /\ searches = <<>>

(***************************************************************************)
(* The mount effect (lines 95-113)                                         *)
(***************************************************************************)
\* The defaults with every built-in source off.
defaultPreferencesOff == [k \in Ids(defaultSearchSources) |-> FALSE]

\* defaultSearchSources.reduce((acc, source) => { acc[source.id] = true; ... }, {})
defaultPreferences == [k \in Ids(defaultSearchSources) |-> TRUE]

\* What the effect found in storage, for lastCall.
Found == storage.prefs.kind \o "/" \o storage.custom.kind

\* JSON.parse throws on the preferences: nothing has been set or written yet.
RestoreThrowsOnPrefs ==
  /\ phase = "init"
  /\ storage.prefs = Malformed
  /\ phase' = "crashed"
  /\ lastCall' = [Call("restore", "") EXCEPT !.info = Found]
  /\ UNCHANGED <<searches, storage, selectedEngines, customSources, searchQuery, isSearching,
                 searchWindows, wins, front, timers, clock>>

\* The preferences after lines 99-108, and what is then in storage under their key.
RestoredPrefs ==
  IF Truthy(storage.prefs) THEN ParsePrefs(storage.prefs) ELSE defaultPreferences

\* The defaults set in memory but not written (line 107 left out).
RestoredPrefsBlobUnwritten == storage.prefs

RestoredPrefsBlob ==
  IF Truthy(storage.prefs) THEN storage.prefs ELSE StringifyPrefs(defaultPreferences)

\* JSON.parse throws on the custom sources, after the preferences were handled.
RestoreThrowsOnCustom ==
  /\ phase = "init"
  /\ storage.prefs # Malformed
  /\ storage.custom = Malformed
  /\ phase' = "crashed"
  /\ selectedEngines' = RestoredPrefs
  /\ storage' = [storage EXCEPT !.prefs = RestoredPrefsBlob]
  /\ lastCall' = [Call("restore", "") EXCEPT !.info = Found]
  /\ UNCHANGED <<searches, customSources, searchQuery, isSearching, searchWindows, wins, front,
                 timers, clock>>

RestoreCompletes ==
  /\ phase = "init"
  /\ storage.prefs # Malformed
  /\ storage.custom # Malformed
  /\ phase' = "running"
  /\ selectedEngines' = RestoredPrefs
  /\ storage' = [storage EXCEPT !.prefs = RestoredPrefsBlob]
  /\ customSources' = IF Truthy(storage.custom) THEN ParseSources(storage.custom) ELSE <<>>
  /\ lastCall' = [Call("restore", "") EXCEPT !.info = Found]
  /\ UNCHANGED <<searches, searchQuery, isSearching, searchWindows, wins, front, timers, clock>>

(***************************************************************************)
(* handleEngineToggle (lines 116-123)                                      *)
(***************************************************************************)
\* The checkbox only ever switched on.
ToggledEnginesOn(m, sourceId) == Spread(m, sourceId, TRUE)

\* The new map built without the spread of the old one.
ToggledEnginesWithoutSpread(m, sourceId) ==
  [k \in {sourceId} |-> ~IsSelected(m, sourceId)]

ToggledEngines(m, sourceId) == Spread(m, sourceId, ~IsSelected(m, sourceId))

handleEngineToggle(sourceId) ==
  /\ phase = "running"
  /\ selectedEngines' = ToggledEngines(selectedEngines, sourceId)
  /\ storage' = [storage EXCEPT !.prefs = StringifyPrefs(selectedEngines')]
  /\ lastCall' = Observed("toggle", sourceId, JsGet(selectedEngines, sourceId))
  /\ UNCHANGED <<searches, phase, customSources, searchQuery, isSearching, searchWindows, wins,
                 front, timers, clock>>

(***************************************************************************)
(* handleAddSource (lines 126-154)                                         *)
(***************************************************************************)
\* The id of the form's draft (the empty string) is kept.
NewSourceIdKept(t) == ""

\* `custom_${Date.now()}`
NewSourceId(t) == "custom_" \o ToString(t)

\* Only the name is tested.
DraftRejectedNameOnly(draft) == draft.name = ""

\* if (!newSource.name || !newSource.url) return;
DraftRejected(draft) == draft.name = "" \/ draft.url = ""

handleAddSourceRejected(draft) ==
  /\ phase = "running"
  /\ DraftRejected(draft)
  /\ lastCall' = Call("addRejected", "")
  /\ UNCHANGED <<searches, phase, storage, selectedEngines, customSources, searchQuery, isSearching,
                 searchWindows, wins, front, timers, clock>>

handleAddSource(draft, t) ==
  /\ phase = "running"
  /\ ~DraftRejected(draft)
  /\ Len(customSources) < MaxCustom
  /\ clock' = t
  /\ LET added == Source(NewSourceId(t), draft.name, draft.url, TRUE)
     IN /\ customSources' = Append(customSources, added)
        /\ selectedEngines' = Spread(selectedEngines, added.id, TRUE)
        /\ storage' = [prefs |-> StringifyPrefs(selectedEngines'),
                       custom |-> StringifySources(customSources')]
        /\ lastCall' = Call("add", added.id)
  /\ UNCHANGED <<searches, phase, searchQuery, isSearching, searchWindows, wins, front, timers>>

(***************************************************************************)
(* handleDeleteSource (lines 157-167)                                      *)
(***************************************************************************)
\* customSources.filter(source => source.id !== sourceId)
RECURSIVE FilterOutId(_, _)
FilterOutId(list, sourceId) ==
  IF list = <<>> THEN <<>>
  ELSE IF Head(list).id # sourceId
       THEN <<Head(list)>> \o FilterOutId(Tail(list), sourceId)
       ELSE FilterOutId(Tail(list), sourceId)

handleDeleteSource(sourceId) ==
  /\ phase = "running"
  /\ customSources' = FilterOutId(customSources, sourceId)
  /\ selectedEngines' = DeleteKey(selectedEngines, sourceId)
  /\ storage' = [prefs |-> StringifyPrefs(selectedEngines'),
                 custom |-> StringifySources(customSources')]
  /\ lastCall' = Call("delete", sourceId)
  /\ UNCHANGED <<searches, phase, searchQuery, isSearching, searchWindows, wins, front, timers, clock>>

\* The Delete button of the card at position i of the merged registry (lines 302-311).
DeleteClick(i) ==
  /\ i \in 1..Len(searchSources)
  /\ searchSources[i].isCustom
  /\ handleDeleteSource(searchSources[i].id)

(***************************************************************************)
(* The window manager: isWindowOpen, openSearchWindow (lines 169-186)      *)
(***************************************************************************)
\* searchWindows.current[id]: undefined and null are both the null handle
HandleOf(map, id) == IF id \in DOMAIN map THEN map[id] ELSE 0

\* The liveness test inverted: a closed window counts as open, an open one as closed.
isWindowOpenInverted(win) == win # 0 /\ wins[win].closed

\* win != null && !win.closed
isWindowOpen(win) == win # 0 /\ ~wins[win].closed

\* window.open creates a window unless the host refuses; the model's host also
\* refuses once it has created MaxWindows windows.
HostCanOpen == Len(wins) < MaxWindows

\* The handle window.open returns is dropped instead of stored.
WindowsAfterNotStored(source, query, granted) == searchWindows

\* The handle window.open returns is stored only when it is not null.
WindowsAfterKeptOnRefusal(source, query, granted) ==
  IF isWindowOpen(HandleOf(searchWindows, source.id)) \/ ~(granted /\ HostCanOpen)
  THEN searchWindows
  ELSE [k \in DOMAIN searchWindows \cup {source.id} |->
          IF k = source.id THEN Len(wins) + 1 ELSE searchWindows[k]]

\* The handle map after openSearchWindow(source, query); granted: the host does not
\* refuse a window.open.
WindowsAfter(source, query, granted) ==
  IF isWindowOpen(HandleOf(searchWindows, source.id))
  THEN searchWindows
  ELSE [k \in DOMAIN searchWindows \cup {source.id} |->
          IF k = source.id
          THEN (IF granted /\ HostCanOpen THEN Len(wins) + 1 ELSE 0)
          ELSE searchWindows[k]]

\* The host's windows after openSearchWindow(source, query).
HostAfter(source, query, granted) ==
  IF isWindowOpen(HandleOf(searchWindows, source.id))
  THEN [wins EXCEPT ![HandleOf(searchWindows, source.id)].url = SearchUrl(source, query)]
  ELSE IF granted /\ HostCanOpen
       THEN Append(wins, [name |-> WindowName(source), url |-> SearchUrl(source, query),
                          features |-> "noopener=yes,noreferrer=yes", closed |-> FALSE])
       ELSE wins

\* Which branch openSearchWindow takes, for lastCall.
Outcome(source, granted) ==
  IF isWindowOpen(HandleOf(searchWindows, source.id)) THEN "navigated"
  ELSE IF granted /\ HostCanOpen THEN "opened" ELSE "refused"

openSearchWindow(source, query, granted) ==
  /\ searchWindows' = WindowsAfter(source, query, granted)
  /\ wins' = HostAfter(source, query, granted)
  \* searchWindows.current[source.id]?.focus()
  /\ front' = IF HandleOf(searchWindows', source.id) # 0
              THEN HandleOf(searchWindows', source.id)
              ELSE front

(***************************************************************************)
(* The query input (line 232)                                              *)
(***************************************************************************)
setSearchQuery(q) ==
  /\ phase = "running"
  /\ q # searchQuery
  /\ searchQuery' = q
  /\ lastCall' = NoCall
  /\ UNCHANGED <<searches, phase, storage, selectedEngines, customSources, isSearching,
                 searchWindows, wins, front, timers, clock>>

(***************************************************************************)
(* handleSearch (lines 188-203) and the timers it sets                     *)
(***************************************************************************)
\* searchSources.filter(source => selectedEngines[source.id])
RECURSIVE FilterSelected(_, _)
FilterSelected(list, m) ==
  IF list = <<>> THEN <<>>
  ELSE IF IsSelected(m, Head(list).id)
       THEN <<Head(list)>> \o FilterSelected(Tail(list), m)
       ELSE FilterSelected(Tail(list), m)

\* The delays counted from one interval instead of from zero.
ScheduledFromOne(selectedSources, query) ==
  [k \in 1..Len(selectedSources) |->
     [source |-> selectedSources[k], query |-> query, delay |-> k * StaggerMs]]

\* The loop of lines 197-202: the i-th selected source (from 0) gets delay i * 100.
Scheduled(selectedSources, query) ==
  [k \in 1..Len(selectedSources) |->
     [source |-> selectedSources[k], query |-> query, delay |-> (k - 1) * StaggerMs]]

\* setTimeout: the host runs callbacks in the order of their due times, and callbacks
\* due at the same time in the order they were set.  remaining counts the stagger
\* intervals until the callback is due.
SetTimeout(queue, source, query, delay) ==
  LET r == delay \div StaggerMs
      before == {i \in 1..Len(queue) : queue[i].remaining <= r}
      n == Cardinality(before)
  IN SubSeq(queue, 1, n)
       \o <<[source |-> source, query |-> query, remaining |-> r]>>
       \o SubSeq(queue, n + 1, Len(queue))

RECURSIVE SetTimeouts(_, _)
SetTimeouts(queue, sched) ==
  IF sched = <<>> THEN queue
  ELSE SetTimeouts(SetTimeout(queue, Head(sched).source, Head(sched).query, Head(sched).delay),
                   Tail(sched))

handleSearchBlank ==
  /\ phase = "running"
  /\ QueryIsBlank(searchQuery)
  /\ lastCall' = [Call("searchAll", "") EXCEPT !.info = "ignored"]
  /\ UNCHANGED <<searches, phase, storage, selectedEngines, customSources, searchQuery, isSearching,
                 searchWindows, wins, front, timers, clock>>

\* handleSearch, the history of searches left open.
Submit ==
  /\ phase = "running"
  /\ ~QueryIsBlank(searchQuery)
  /\ LET sched == Scheduled(FilterSelected(searchSources, selectedEngines), searchQuery)
     IN /\ Len(timers) + Len(sched) <= MaxTimers
        /\ isSearching' = TRUE
        /\ timers' = SetTimeouts(timers, sched)
        /\ lastCall' = Call("searchAll", "")
  /\ UNCHANGED <<phase, storage, selectedEngines, customSources, searchQuery,
                 searchWindows, wins, front, clock>>

handleSearch ==
  /\ Submit
  /\ UNCHANGED searches

\* handleSearch, recorded: the query and the ids of the sources it schedules.
handleSearchRecorded ==
  /\ Submit
  /\ searches' = Append(searches,
                        [query |-> searchQuery,
                         selected |-> Ids(FilterSelected(searchSources, selectedEngines))])

\* A callback that reads the query of the input field when it runs.
TimerFiresCurrentQuery(granted) ==
  /\ timers # <<>>
  /\ Head(timers).remaining = 0
  /\ openSearchWindow(Head(timers).source, searchQuery, granted)
  /\ timers' = Tail(timers)
  /\ lastCall' = [Call("timer", Head(timers).source.id)
                    EXCEPT !.info = Outcome(Head(timers).source, granted)]
  /\ UNCHANGED <<searches, phase, storage, selectedEngines, customSources, searchQuery, isSearching,
                 clock>>

\* A pending callback runs: openSearchWindow(source, searchQuery) with the values
\* the closure captured.  Callbacks outlive the component.  lastCall.info: the branch
\* openSearchWindow took.
TimerFires(granted) ==
  /\ timers # <<>>
  /\ Head(timers).remaining = 0
  /\ openSearchWindow(Head(timers).source, Head(timers).query, granted)
  /\ timers' = Tail(timers)
  /\ lastCall' = [Call("timer", Head(timers).source.id)
                    EXCEPT !.info = Outcome(Head(timers).source, granted)]
  /\ UNCHANGED <<searches, phase, storage, selectedEngines, customSources, searchQuery, isSearching,
                 clock>>

\* One stagger interval passes.  The host runs a callback within the interval in
\* which it falls due, so no interval passes while a callback is due.
Tick ==
  /\ \E i \in 1..Len(timers) : timers[i].remaining > 0
  /\ \A i \in 1..Len(timers) : timers[i].remaining > 0
  /\ timers' = [i \in 1..Len(timers) |->
                  [timers[i] EXCEPT !.remaining = IF @ > 0 THEN @ - 1 ELSE 0]]
  /\ lastCall' = NoCall
  /\ UNCHANGED <<searches, phase, storage, selectedEngines, customSources, searchQuery, isSearching,
                 searchWindows, wins, front, clock>>

(***************************************************************************)
(* handleSingleSearch (lines 205-208)                                      *)
(***************************************************************************)
handleSingleSearchBlank(source) ==
  /\ phase = "running"
  /\ QueryIsBlank(searchQuery)
  /\ lastCall' = [Call("searchOne", source.id) EXCEPT !.info = "ignored"]
  /\ UNCHANGED <<searches, phase, storage, selectedEngines, customSources, searchQuery, isSearching,
                 searchWindows, wins, front, timers, clock>>

\* The card's button honouring the checkbox: nothing is displayed for a source that
\* is not selected.
handleSingleSearchIfSelected(source, granted) ==
  /\ phase = "running"
  /\ ~QueryIsBlank(searchQuery)
  /\ IF IsSelected(selectedEngines, source.id)
     THEN openSearchWindow(source, searchQuery, granted)
     ELSE UNCHANGED <<searchWindows, wins, front>>
  /\ lastCall' = [Call("searchOne", source.id) EXCEPT !.info = Outcome(source, granted)]
  /\ UNCHANGED <<searches, phase, storage, selectedEngines, customSources, searchQuery, isSearching,
                 timers, clock>>

handleSingleSearch(source, granted) ==
  /\ phase = "running"
  /\ ~QueryIsBlank(searchQuery)
  /\ openSearchWindow(source, searchQuery, granted)
  /\ lastCall' = [Call("searchOne", source.id) EXCEPT !.info = Outcome(source, granted)]
  /\ UNCHANGED <<searches, phase, storage, selectedEngines, customSources, searchQuery, isSearching,
                 timers, clock>>

(***************************************************************************)
(* The user closes a window; the unmount cleanup (lines 210-218)           *)
(***************************************************************************)
\* A closed window shows no document and is not in the foreground.
Closed(win) == [win EXCEPT !.closed = TRUE, !.url = <<>>]

UserClosesWindow(w) ==
  /\ w \in 1..Len(wins)
  /\ ~wins[w].closed
  /\ wins' = [wins EXCEPT ![w] = Closed(@)]
  /\ front' = IF front = w THEN 0 ELSE front
  /\ lastCall' = NoCall
  /\ UNCHANGED <<searches, phase, storage, selectedEngines, customSources, searchQuery, isSearching,
                 searchWindows, timers, clock>>

\* Object.values(searchWindows.current).forEach(w => { if (isWindowOpen(w)) w?.close() })
Tracked == {searchWindows[k] : k \in DOMAIN searchWindows}

\* close() called on every tracked handle that is not null, open or not.
ClosedByTeardownUnchecked == Tracked \ {0}

\* The handles the cleanup calls close() on: if (isWindowOpen(window)) window?.close()
ClosedByTeardown == {w \in Tracked : isWindowOpen(w)}

\* The cleanup also cancelling the pending callbacks (clearTimeout).
UnmountCancellingTimers ==
  /\ phase = "running"
  /\ phase' = "unmounted"
  /\ wins' = [w \in 1..Len(wins) |->
                IF w \in ClosedByTeardown THEN Closed(wins[w]) ELSE wins[w]]
  /\ front' = IF front \in Tracked THEN 0 ELSE front
  /\ timers' = <<>>
  /\ lastCall' = [Call("teardown", "") EXCEPT !.info = ToString(Cardinality(ClosedByTeardown))]
  /\ UNCHANGED <<searches, storage, selectedEngines, customSources, searchQuery, isSearching,
                 searchWindows, clock>>

\* lastCall.info: how many close() calls the cleanup made.
Unmount ==
  /\ phase = "running"
  /\ phase' = "unmounted"
  /\ wins' = [w \in 1..Len(wins) |->
                IF w \in ClosedByTeardown THEN Closed(wins[w]) ELSE wins[w]]
  /\ front' = IF front \in Tracked THEN 0 ELSE front
  /\ lastCall' = [Call("teardown", "") EXCEPT !.info = ToString(Cardinality(ClosedByTeardown))]
  /\ UNCHANGED <<searches, storage, selectedEngines, customSources, searchQuery, isSearching,
                 searchWindows, timers, clock>>

(***************************************************************************)
(* The program                                                             *)
(***************************************************************************)
Next ==
  \/ RestoreThrowsOnPrefs
  \/ RestoreThrowsOnCustom
  \/ RestoreCompletes
  \/ \E i \in 1..Len(searchSources) : handleEngineToggle(searchSources[i].id)
  \/ \E d \in Drafts : handleAddSourceRejected(d)
  \/ \E d \in Drafts, t \in clock..MaxClock : handleAddSource(d, t)
  \/ \E i \in 1..Len(searchSources) : DeleteClick(i)
  \/ \E q \in Queries : setSearchQuery(q)
  \/ handleSearchBlank
  \/ handleSearch
  \/ \E g \in BOOLEAN : TimerFires(g)
  \/ Tick
  \/ \E i \in 1..Len(searchSources) : handleSingleSearchBlank(searchSources[i])
  \/ \E i \in 1..Len(searchSources), g \in BOOLEAN : handleSingleSearch(searchSources[i], g)
  \/ \E w \in 1..Len(wins) : UserClosesWindow(w)
  \/ Unmount

Spec == Init /\ [][Next]_vars

(***************************************************************************)
(* The program restricted to the registry and the preference store: the    *)
(* user never searches.  No action left out writes storage,                *)
(* selectedEngines, customSources or clock.                                *)
(***************************************************************************)
NextStore ==
  \/ RestoreThrowsOnPrefs
  \/ RestoreThrowsOnCustom
  \/ RestoreCompletes
  \/ \E i \in 1..Len(searchSources) : handleEngineToggle(searchSources[i].id)
  \/ \E d \in Drafts : handleAddSourceRejected(d)
  \/ \E d \in Drafts, t \in clock..MaxClock : handleAddSource(d, t)
  \/ \E i \in 1..Len(searchSources) : DeleteClick(i)

SpecStore == Init /\ [][NextStore]_vars

(***************************************************************************)
(* The program restricted to the window manager: storage is empty, so the  *)
(* registry is the built-in sources, all selected, and the user leaves the *)
(* checkboxes alone.  searchOne displays any source at any time, so the    *)
(* restriction loses no sequence of displays.                              *)
(***************************************************************************)
InitWindows ==
  /\ Init
  /\ storage = [prefs |-> Absent, custom |-> Absent]

NextWindows ==
  \/ RestoreCompletes
  \/ \E q \in Queries : setSearchQuery(q)
  \/ handleSearchBlank
  \/ handleSearch
  \/ \E g \in BOOLEAN : TimerFires(g)
  \/ Tick
  \/ \E i \in 1..Len(searchSources) : handleSingleSearchBlank(searchSources[i])
  \/ \E i \in 1..Len(searchSources), g \in BOOLEAN : handleSingleSearch(searchSources[i], g)
  \/ \E w \in 1..Len(wins) : UserClosesWindow(w)
  \/ Unmount

SpecWindows == InitWindows /\ [][NextWindows]_vars

(***************************************************************************)
(* The program restricted to what searchAll schedules: storage parses, the *)
(* user adds (one draft), deletes and toggles sources and edits the query, *)
(* then submits searches in quick succession: no stagger interval has      *)
(* passed, so no callback has run.                                         *)
(***************************************************************************)
TheDraft == [name |-> "X", url |-> "https://x.com/?q="]

InitSchedule ==
  /\ Init
  /\ storage.prefs # Malformed
  /\ storage.custom = Absent

NextSchedule ==
  \/ RestoreCompletes
  \/ timers = <<>> /\ \E i \in 1..Len(searchSources) : handleEngineToggle(searchSources[i].id)
  \/ timers = <<>> /\ \E t \in clock..MaxClock : handleAddSource(TheDraft, t)
  \/ timers = <<>> /\ \E i \in 1..Len(searchSources) : DeleteClick(i)
  \/ timers = <<>> /\ \E q \in Queries : setSearchQuery(q)
  \/ handleSearchBlank
  \/ handleSearch

SpecSchedule == InitSchedule /\ [][NextSchedule]_vars

(***************************************************************************)
(* The registry and the preference store with handleDeleteSource called    *)
(* for any id of the registry, a built-in one included (the page itself    *)
(* offers Delete on custom cards only, which DeleteClick covers).          *)
(***************************************************************************)
NextDelete ==
  \/ NextStore
  \/ \E i \in 1..Len(searchSources) : handleDeleteSource(searchSources[i].id)

SpecDelete == Init /\ [][NextDelete]_vars

(***************************************************************************)
(* The program restricted to the cards of the registry: storage is empty,  *)
(* the user adds at most one source (X), toggles checkboxes, types a query *)
(* and then presses the Search button of single cards; searchAll is never  *)
(* submitted, so no timer is set.                                          *)
(***************************************************************************)
\* The drafts the user submits for source X: complete, or with a field left empty.
DraftsOfX == {d \in Drafts : d.name = "" \/ d.name = TheDraft.name}

NextCards ==
  \/ RestoreCompletes
  \/ \E i \in 1..Len(searchSources) : handleEngineToggle(searchSources[i].id)
  \/ \E d \in DraftsOfX : handleAddSourceRejected(d)
  \/ customSources = <<>> /\ \E d \in DraftsOfX : handleAddSource(d, clock)
  \/ wins = <<>> /\ \E q \in Queries : setSearchQuery(q)
  \/ \E i \in 1..Len(searchSources) : handleSingleSearchBlank(searchSources[i])
  \/ \E i \in 1..Len(searchSources), g \in BOOLEAN : handleSingleSearch(searchSources[i], g)

SpecCards == InitWindows /\ [][NextCards]_vars

(***************************************************************************)
(* The program restricted to the URLs it hands to the host: storage is     *)
(* empty, the user adds at most one source, edits the query at any time    *)
(* and presses the Search button of single cards.                          *)
(***************************************************************************)
NextUrls ==
  \/ RestoreCompletes
  \/ customSources = <<>> /\ \E d \in Drafts : handleAddSource(d, clock)
  \/ \E q \in Queries : setSearchQuery(q)
  \/ \E i \in 1..Len(searchSources), g \in BOOLEAN : handleSingleSearch(searchSources[i], g)

SpecUrls == InitWindows /\ [][NextUrls]_vars

(***************************************************************************)
(* The program restricted to the checkboxes: storage parses (it may hold   *)
(* preferences of an earlier session, with entries missing, and a custom   *)
(* source), the user types a query, opens windows from the cards and       *)
(* toggles checkboxes.                                                     *)
(***************************************************************************)
InitToggle ==
  /\ Init
  /\ storage.prefs # Malformed
  /\ storage.custom # Malformed

NextToggle ==
  \/ RestoreCompletes
  \/ \E i \in 1..Len(searchSources) : handleEngineToggle(searchSources[i].id)
  \/ wins = <<>> /\ \E q \in Queries : setSearchQuery(q)
  \/ \E i \in 1..Len(searchSources), g \in BOOLEAN : handleSingleSearch(searchSources[i], g)

SpecToggle == InitToggle /\ [][NextToggle]_vars

(***************************************************************************)
(* The program with its timers running: storage is empty; until the first  *)
(* callback has run the user toggles checkboxes, edits the query and       *)
(* submits searches; the page can be left at any time.  The host runs a    *)
(* callback that is due and time keeps passing (weak fairness: a due       *)
(* callback stays due until it runs, and once the user has stopped an      *)
(* interval that can pass stays able to until it does).                    *)
(***************************************************************************)
NextFire ==
  \/ RestoreCompletes
  \/ searchWindows = EmptyMap /\ \E i \in 1..Len(searchSources) : handleEngineToggle(searchSources[i].id)
  \/ searchWindows = EmptyMap /\ \E q \in Queries : setSearchQuery(q)
  \/ searchWindows = EmptyMap /\ handleSearch
  \/ \E g \in BOOLEAN : TimerFires(g)
  \/ Tick
  \/ Unmount

SpecFire ==
  /\ InitWindows
  /\ [][NextFire]_vars
  /\ WF_vars(\E g \in BOOLEAN : TimerFires(g))
  /\ WF_vars(Tick)

(***************************************************************************)
(* The program restricted to what a pending callback captured: storage is  *)
(* empty, the user adds one source (X), submits one search and, at any     *)
(* time, also while callbacks are pending, toggles checkboxes, edits the   *)
(* query and deletes the custom source.  The host grants every window it   *)
(* has room for.                                                           *)
(***************************************************************************)
NextCapture ==
  \/ RestoreCompletes
  \/ timers = <<>> /\ customSources = <<>> /\ handleAddSource(TheDraft, clock)
  \/ \E i \in 1..Len(searchSources) : handleEngineToggle(searchSources[i].id)
  \/ \E i \in 1..Len(searchSources) : DeleteClick(i)
  \/ \E q \in Queries : setSearchQuery(q)
  \/ ~isSearching /\ handleSearch
  \/ TimerFires(TRUE)
  \/ Tick

SpecCapture == InitWindows /\ [][NextCapture]_vars

(***************************************************************************)
(* The program restricted to two searches racing: storage is empty, the    *)
(* user toggles checkboxes, edits the query and submits searches, which    *)
(* are recorded, also while callbacks of the first search are pending and  *)
(* after some have run; after the second search the user leaves the page   *)
(* alone.  The host grants every open (there is room for one window per    *)
(* source) and the user closes no window.                                  *)
(***************************************************************************)
NextRace ==
  \/ RestoreCompletes
  \/ Len(searches) < 2 /\ \E i \in 1..Len(searchSources) : handleEngineToggle(searchSources[i].id)
  \/ Len(searches) < 2 /\ \E q \in Queries : setSearchQuery(q)
  \/ Len(searches) < 2 /\ handleSearchRecorded
  \/ TimerFires(TRUE)
  \/ Tick

SpecRace == InitWindows /\ [][NextRace]_vars

(***************************************************************************)
(* Properties of the window manager                                        *)
(***************************************************************************)
\* The sources a display can be given: those of the registry and those a pending
\* callback captured.
SourcesInPlay ==
  {searchSources[i] : i \in 1..Len(searchSources)} \cup {timers[i].source : i \in 1..Len(timers)}

\* This step is a call openSearchWindow(source, query), from the Search button of a
\* card or from a stagger callback, for which the host answers window.open as
\* granted says.
DisplayStepGranted(source, query, granted) ==
  \/ /\ query = searchQuery
     /\ lastCall'.op = "searchOne"
     /\ handleSingleSearch(source, granted)
  \/ /\ timers # <<>>
     /\ source = Head(timers).source
     /\ query = Head(timers).query
     /\ TimerFires(granted)

\* This step is a call openSearchWindow(source, query).
DisplayStep(source, query) == \E g \in BOOLEAN : DisplayStepGranted(source, query, g)

\* The handle stored for id is a window that is not closed.
HasLiveHandle(id) ==
  /\ id \in DOMAIN searchWindows
  /\ searchWindows[id] \in 1..Len(wins)
  /\ ~wins[searchWindows[id]].closed

\* C1: a display for a source whose stored handle is still open creates no window:
\* it navigates that same window in place to the URL of the new query, keeps the
\* handle, brings the window to the foreground and leaves every other window alone.
C1_DisplayReusesLiveWindow ==
  [][\A source \in SourcesInPlay, query \in Queries :
       (HasLiveHandle(source.id) /\ DisplayStep(source, query)) =>
         LET h == searchWindows[source.id]
         IN /\ Len(wins') = Len(wins)
            /\ searchWindows' = searchWindows
            /\ wins'[h] = [wins[h] EXCEPT !.url = SearchUrl(source, query)]
            /\ \A w \in 1..Len(wins) : w # h => wins'[w] = wins[w]
            /\ front' = h]_vars

\* The windows ever created under the name of source id.
WindowsNamed(id) == {w \in 1..Len(wins) : wins[w].name = "search_" \o id}

\* A second display found the window of the first one open and navigated it to
\* another query: one window was created for the source in total.
C1_Witness ==
  /\ lastCall.op = "searchOne"
  /\ lastCall.info = "navigated"
  /\ Cardinality(WindowsNamed(lastCall.id)) = 1
  /\ HasLiveHandle(lastCall.id)
  /\ wins[searchWindows[lastCall.id]].url = <<"https://www.google.com/search?q=", "a", "%20", "b">>

\* C2: every window the manager ever opened that is not closed is the window stored
\* in the handle map under the id it was opened for; so each id has at most one.
C2_AtMostOneLiveWindowPerSource ==
  \A w \in 1..Len(wins) :
    ~wins[w].closed =>
      \E id \in DOMAIN searchWindows :
        /\ wins[w].name = "search_" \o id
        /\ searchWindows[id] = w
        /\ \A v \in WindowsNamed(id) : v # w => wins[v].closed

\* A source has had two windows: the first was closed, the second is open and tracked.
C2_Witness ==
  \E id \in DOMAIN searchWindows :
    /\ Cardinality(WindowsNamed(id)) = 2
    /\ HasLiveHandle(id)
    /\ \E v \in WindowsNamed(id) : wins[v].closed

(***************************************************************************)
(* Properties of the search orchestrator                                   *)
(***************************************************************************)
\* The positions of the registry whose source is marked selected.
SelectedPositions ==
  {i \in 1..Len(searchSources) :
     /\ searchSources[i].id \in DOMAIN selectedEngines
     /\ selectedEngines[searchSources[i].id] = TRUE}

\* How many selected sources precede position i in the registry.
RankOf(i) == Cardinality({j \in SelectedPositions : j < i})

\* The callback searchAll owes to the selected source at position i: the RankOf(i)-th
\* call, RankOf(i) stagger intervals from now.
OwedTimer(i) == [source |-> searchSources[i], query |-> searchQuery, remaining |-> RankOf(i)]

CountIn(queue, x) == Cardinality({i \in 1..Len(queue) : queue[i] = x})

\* q has no character that is not white space.
OnlyWhiteSpace(q) == \A i \in 1..Len(q) : q[i] \in WhiteSpace

\* C3: searchAll with a query that is not blank adds to the pending callbacks exactly
\* one callback per selected registry source and nothing else, the k-th selected
\* source in registry order (k from 0) due after k intervals, with the current query.
C3_SearchAllSchedulesSelectedInOrder ==
  [][(handleSearch /\ ~OnlyWhiteSpace(searchQuery)) =>
       /\ Len(timers') = Len(timers) + Cardinality(SelectedPositions)
       /\ \A i \in SelectedPositions : CountIn(timers', OwedTimer(i)) > 0
       /\ \A n \in 1..Len(timers') :
            CountIn(timers', timers'[n]) =
              CountIn(timers, timers'[n])
                + Cardinality({i \in SelectedPositions : OwedTimer(i) = timers'[n]})]_vars

\* A search was just scheduled for a registry that holds a custom source and an
\* unselected source: the custom source comes after a selected built-in.
C3_Witness ==
  /\ lastCall.op = "searchAll"
  /\ lastCall.info # "ignored"
  /\ Len(timers) = 2
  /\ ~timers[1].source.isCustom /\ timers[1].remaining = 0
  /\ timers[2].source.isCustom /\ timers[2].remaining = 1
  /\ Cardinality(SelectedPositions) < Len(searchSources)

\* This step is a search submitted by the user: the form, or the button of a card.
SearchStep ==
  \/ handleSearchBlank
  \/ handleSearch
  \/ \E i \in 1..Len(searchSources) :
       \/ handleSingleSearchBlank(searchSources[i])
       \/ \E g \in BOOLEAN : handleSingleSearch(searchSources[i], g)

\* C4: a search with an empty or white-space-only query sets no timer, touches no
\* window and no handle, and leaves preferences, custom sources and storage alone.
C4_BlankQueryIsNoOp ==
  [][(OnlyWhiteSpace(searchQuery) /\ SearchStep) =>
       UNCHANGED <<timers, wins, searchWindows, front, selectedEngines, customSources,
                   storage, isSearching>>]_vars

\* The Search button of a card was pressed with a query of one space, while a window
\* was open: nothing happened to it.
C4_Witness ==
  /\ lastCall.op = "searchOne"
  /\ lastCall.info = "ignored"
  /\ searchQuery = <<" ">>
  /\ \E w \in 1..Len(wins) : ~wins[w].closed

(***************************************************************************)
(* Properties of the registry and the preference store                     *)
(***************************************************************************)
\* The JavaScript value stored for id in preference map m.
ValueOf(m, id) ==
  IF id \notin DOMAIN m THEN "undefined" ELSE IF m[id] THEN "true" ELSE "false"

\* This step is a second toggleSelection(id) right after a first one.
SecondToggle(id) ==
  /\ lastCall.op = "toggle"
  /\ lastCall.id = id
  /\ handleEngineToggle(id)

\* C5 as claimed: after two toggleSelection(id) in succession the entry for id has the
\* value it had before the two calls (lastCall.info, recorded by the first call).
C5_Claimed_ToggleTwiceRestoresValue ==
  [][\A i \in 1..Len(searchSources) :
       SecondToggle(searchSources[i].id) =>
         ValueOf(selectedEngines', searchSources[i].id) = lastCall.info]_vars

\* C5 as amended: after two toggleSelection(id) in succession the entry for id reads,
\* as a boolean, as it did before the two calls: a true or false entry has its value
\* back, and an entry that was absent is now an explicit false entry.
C5_ToggleTwiceRestoresSelection ==
  [][\A i \in 1..Len(searchSources) :
       SecondToggle(searchSources[i].id) =>
         ValueOf(selectedEngines', searchSources[i].id) =
           (IF lastCall.info = "undefined" THEN "false" ELSE lastCall.info)]_vars

\* A source whose entry was true has just been toggled twice in a row.
C5_Witness ==
  /\ lastCall.op = "toggle"
  /\ lastCall.again
  /\ lastCall.info = "false"
  /\ ValueOf(selectedEngines, lastCall.id) = "true"

\* The 'searchEnginePreferences' entry holds exactly the members of map m.
StoresPrefs(m) ==
  /\ storage.prefs.kind = "json"
  /\ storage.prefs.val = {<<k, ValueOf(m, k)>> : k \in DOMAIN m}

\* The 'customSearchSources' entry holds exactly the sources of list.
StoresSources(list) ==
  /\ storage.custom.kind = "json"
  /\ Len(storage.custom.val) = Len(list)
  /\ \A i \in 1..Len(list) :
       /\ storage.custom.val[i].id = list[i].id
       /\ storage.custom.val[i].name = list[i].name
       /\ storage.custom.val[i].url = list[i].url
       /\ storage.custom.val[i].isCustom = (IF list[i].isCustom THEN "true" ELSE "false")

\* C6: once startup restore has completed, after any toggles, additions and
\* deletions, storage holds the in-memory preference map and the in-memory custom
\* list (no custom entry in storage counting as the empty list).
C6_StorageMatchesMemory ==
  phase = "running" =>
    /\ StoresPrefs(selectedEngines)
    /\ \/ StoresSources(customSources)
       \/ storage.custom.kind = "absent" /\ customSources = <<>>

\* Two sources were added on top of defaults that restore had to synthesize.
C6_Witness ==
  /\ phase = "running"
  /\ lastCall.op = "add"
  /\ Len(customSources) = 2
  /\ "google" \in DOMAIN selectedEngines
  /\ Cardinality(DOMAIN selectedEngines) >= 3

\* list without its element at position n.
WithoutPosition(list, n) == SubSeq(list, 1, n - 1) \o SubSeq(list, n + 1, Len(list))

\* C7: after the Delete button of the custom source at registry position i, that
\* source's id is in neither the custom list nor the merged registry nor the
\* preference map, in memory and in storage, and every other custom source and
\* every other preference entry is as before.
C7_DeleteRemovesOnlyThatSource ==
  [][\A i \in 1..Len(searchSources) :
       DeleteClick(i) =>
         LET id == searchSources[i].id
         IN /\ id \notin Ids(customSources')
            /\ id \notin Ids(searchSources')
            /\ id \notin DOMAIN selectedEngines'
            /\ customSources' = WithoutPosition(customSources, i - Len(defaultSearchSources))
            /\ \A k \in DOMAIN selectedEngines \ {id} :
                 ValueOf(selectedEngines', k) = ValueOf(selectedEngines, k)
            /\ DOMAIN selectedEngines' \subseteq DOMAIN selectedEngines
            /\ storage'.custom.kind = "json" /\ storage'.prefs.kind = "json"
            /\ \A n \in 1..Len(storage'.custom.val) : storage'.custom.val[n].id # id
            /\ \A e \in storage'.prefs.val : e[1] # id]_vars

\* C8: the ids of the merged registry are pairwise distinct.
C8_RegistryIdsDistinct ==
  \A i, j \in 1..Len(searchSources) :
    i # j => searchSources[i].id # searchSources[j].id

\* The effect found a stored value that does not parse.
FoundMalformedPrefs == lastCall.info \in {"malformed/absent", "malformed/json", "malformed/malformed"}
FoundMalformedCustom == lastCall.info \in {"absent/malformed", "json/malformed", "malformed/malformed"}

\* The preference map with one true entry per built-in source and nothing else.
AllBuiltinsSelected(m) ==
  /\ DOMAIN m = {AllDefaultSearchSources[i].id : i \in 1..NumBuiltins}
  /\ \A k \in DOMAIN m : m[k] = TRUE

\* C9: startup restore treats a stored value that does not parse as absent: the
\* effect does not throw, malformed preferences give the defaults, malformed custom
\* sources give the empty list, and the page is running.
C9_MalformedStorageTreatedAsAbsent ==
  (lastCall.op = "restore" /\ (FoundMalformedPrefs \/ FoundMalformedCustom)) =>
    /\ phase = "running"
    /\ FoundMalformedPrefs => AllBuiltinsSelected(selectedEngines)
    /\ FoundMalformedCustom => customSources = <<>>

\* C10: when storage holds no preferences at startup, restore leaves in memory one
\* true entry per built-in source and nothing else, and writes exactly that map.
C10_FirstRunSelectsAllBuiltins ==
  (phase = "running" /\ lastCall.op = "restore"
     /\ lastCall.info \in {"absent/absent", "absent/json"}) =>
    /\ AllBuiltinsSelected(selectedEngines)
    /\ storage.prefs.kind = "json"
    /\ storage.prefs.val = {<<AllDefaultSearchSources[i].id, "true">> : i \in 1..NumBuiltins}

\* Restore has just run on storage without preferences but with a custom source.
C10_Witness ==
  /\ phase = "running"
  /\ lastCall.op = "restore"
  /\ lastCall.info = "absent/json"
  /\ Len(customSources) = 1
(***************************************************************************)
(* Properties of teardown and of a refused open                            *)
(***************************************************************************)
\* The ids whose stored handle is a window that is not closed.
LiveIds == {id \in DOMAIN searchWindows : HasLiveHandle(id)}

\* C11: teardownAll closes every tracked handle that is live, calls close() on no
\* handle that is null or already closed (it makes exactly one call per live handle
\* and leaves closed windows as they are), and right after it no window that the
\* handle map refers to is open.
C11_TeardownClosesExactlyLiveHandles ==
  [][Unmount =>
       /\ \A id \in LiveIds : wins'[searchWindows[id]].closed
       /\ lastCall'.info = ToString(Cardinality(LiveIds))
       /\ \A w \in 1..Len(wins) : wins[w].closed => wins'[w] = wins[w]
       /\ Len(wins') = Len(wins)
       /\ \A id \in DOMAIN searchWindows' :
            searchWindows'[id] = 0 \/ wins'[searchWindows'[id]].closed]_vars

\* Teardown has just run with two windows tracked, one of which the user had closed:
\* it made one close() call.
C11_Witness ==
  /\ lastCall.op = "teardown"
  /\ lastCall.info = "1"
  /\ Cardinality(Tracked \ {0}) = 2
  /\ \A w \in Tracked \ {0} : wins[w].closed

\* C12: right after teardownAll the handle map is empty: it has no entry for any
\* source id.
C12_HandleMapEmptyAfterTeardown ==
  lastCall.op = "teardown" => DOMAIN searchWindows = {}

\* The window a successful open for source and query creates.
FreshWindow(source, query) ==
  [name |-> "search_" \o source.id, url |-> SearchUrl(source, query),
   features |-> "noopener=yes,noreferrer=yes", closed |-> FALSE]

\* C13: a display whose open the host refuses does not throw (the page keeps running
\* and the step completes), records a null handle for the source, creates and touches
\* no window and sets no timer; a display for a source whose recorded handle is null
\* calls window.open afresh (a window is created whenever the host grants it, and none
\* is navigated or focused otherwise); and a window is only ever created by a step
\* that is a display call.
C13_RefusedOpenRecordsNullAndNextDisplayReopens ==
  [][/\ \A source \in SourcesInPlay, query \in Queries :
          (~HasLiveHandle(source.id) /\ DisplayStepGranted(source, query, FALSE)) =>
            /\ source.id \in DOMAIN searchWindows' /\ searchWindows'[source.id] = 0
            /\ \A k \in DOMAIN searchWindows \ {source.id} :
                 k \in DOMAIN searchWindows' /\ searchWindows'[k] = searchWindows[k]
            /\ wins' = wins /\ front' = front
            /\ Len(timers') <= Len(timers)
            /\ phase' = phase
     /\ \A source \in SourcesInPlay, query \in Queries, granted \in BOOLEAN :
          (/\ source.id \in DOMAIN searchWindows
           /\ searchWindows[source.id] = 0
           /\ DisplayStepGranted(source, query, granted)) =>
            IF granted /\ Len(wins) < MaxWindows
            THEN /\ wins' = Append(wins, FreshWindow(source, query))
                 /\ searchWindows'[source.id] = Len(wins')
                 /\ front' = Len(wins')
            ELSE /\ wins' = wins /\ front' = front
                 /\ searchWindows'[source.id] = 0
     /\ Len(wins') > Len(wins) =>
          \E source \in SourcesInPlay, query \in Queries : DisplayStep(source, query)]_vars

\* The host has just refused a display for a source whose earlier window the user had
\* closed, although it could still create windows: the source's handle is now null.
C13_Witness ==
  /\ lastCall.op = "searchOne"
  /\ lastCall.info = "refused"
  /\ Len(wins) < MaxWindows
  /\ lastCall.id \in DOMAIN searchWindows
  /\ searchWindows[lastCall.id] = 0
  /\ Cardinality(WindowsNamed(lastCall.id)) = 1
  /\ phase = "running"

(***************************************************************************)
(* Properties of the cards: adding, toggling, searching one source         *)
(***************************************************************************)
\* This step is the add-source form submitted with draft.
AddStep(draft) ==
  \/ handleAddSourceRejected(draft)
  \/ \E t \in clock..MaxClock : handleAddSource(draft, t)

\* C14: addCustomSource with an empty name or an empty URL template changes nothing:
\* the custom list, the preference map, both storage entries and the handle map are
\* as before.
C14_EmptyDraftIsNoOp ==
  [][\A d \in Drafts :
       ((d.name = "" \/ d.url = "") /\ AddStep(d)) =>
         /\ customSources' = customSources
         /\ selectedEngines' = selectedEngines
         /\ storage'.prefs = storage.prefs
         /\ storage'.custom = storage.custom
         /\ searchWindows' = searchWindows]_vars

\* The form was just submitted with an empty field, on a page that has a custom
\* source, a deselected source and a tracked window.
C14_Witness ==
  /\ lastCall.op = "addRejected"
  /\ customSources # <<>>
  /\ \E k \in DOMAIN selectedEngines : ~selectedEngines[k]
  /\ \E id \in DOMAIN searchWindows : HasLiveHandle(id)

\* C15: addCustomSource with a non-empty name and URL template gives the source an
\* id generated at the call ("custom_" and the time, in place of the draft's empty
\* id), appends it as the last element of the otherwise unchanged custom list, sets
\* the preference of the new id to true and leaves every other preference entry
\* alone, and writes the new list and the new preferences to storage.
C15_AddAppendsSelectsAndPersists ==
  [][\A d \in Drafts, t \in 1..MaxClock :
       (d.name # "" /\ d.url # "" /\ handleAddSource(d, t)) =>
         LET id == "custom_" \o ToString(t)
         IN /\ id # ""
            /\ Len(customSources') = Len(customSources) + 1
            /\ SubSeq(customSources', 1, Len(customSources)) = customSources
            /\ customSources'[Len(customSources')] =
                 [id |-> id, name |-> d.name, url |-> d.url, isCustom |-> TRUE]
            /\ DOMAIN selectedEngines' = DOMAIN selectedEngines \cup {id}
            /\ selectedEngines'[id] = TRUE
            /\ \A k \in DOMAIN selectedEngines \ {id} : selectedEngines'[k] = selectedEngines[k]
            /\ StoresPrefs(selectedEngines)'
            /\ StoresSources(customSources)']_vars

\* A second source was just added while another preference entry was false: the
\* new source is last in the list and selected, the false entry is still false.
C15_Witness ==
  /\ lastCall.op = "add"
  /\ Len(customSources) = 2
  /\ customSources[2].id = lastCall.id
  /\ customSources[1].id # lastCall.id
  /\ selectedEngines[lastCall.id]
  /\ \E k \in DOMAIN selectedEngines : ~selectedEngines[k]

\* C16: in every reachable state every built-in source is in the merged registry:
\* no deleteCustomSource(id), whatever the id, a built-in one included, removes it.
C16_BuiltinsAlwaysInRegistry ==
  \A i \in 1..NumBuiltins :
    \E j \in 1..Len(searchSources) : searchSources[j] = AllDefaultSearchSources[i]

\* handleDeleteSource has just been called with the id of a built-in source, on a
\* page with a custom source: the preference entry is gone, the source is not.
C16_Witness ==
  /\ lastCall.op = "delete"
  /\ lastCall.id = "google"
  /\ "google" \notin DOMAIN selectedEngines
  /\ customSources # <<>>

\* C17: searchOne(source, query) with a query that is not blank makes, within the
\* step itself, the one display call for that source: it sets no timer, navigates
\* the source's live window or else asks the host for a new one, whether or not the
\* source is selected, and touches no other source's handle or window.
C17_SearchOneDisplaysOnceImmediately ==
  [][\A i \in 1..Len(searchSources), g \in BOOLEAN :
       (/\ ~OnlyWhiteSpace(searchQuery)
        /\ lastCall'.op = "searchOne"
        /\ handleSingleSearch(searchSources[i], g)) =>
         LET source == searchSources[i]
             id == source.id
         IN /\ timers' = timers
            /\ DOMAIN searchWindows' = DOMAIN searchWindows \cup {id}
            /\ \A k \in DOMAIN searchWindows \ {id} : searchWindows'[k] = searchWindows[k]
            /\ \A w \in 1..Len(wins) : w # HandleOf(searchWindows, id) => wins'[w] = wins[w]
            /\ IF HasLiveHandle(id)
               THEN /\ Len(wins') = Len(wins)
                    /\ searchWindows'[id] = searchWindows[id]
                    /\ wins'[searchWindows[id]].url = SearchUrl(source, searchQuery)
                    /\ front' = searchWindows[id]
               ELSE IF g /\ Len(wins) < MaxWindows
                    THEN /\ wins' = Append(wins, FreshWindow(source, searchQuery))
                         /\ searchWindows'[id] = Len(wins')
                         /\ front' = Len(wins')
                    ELSE /\ wins' = wins
                         /\ searchWindows'[id] = 0
                         /\ front' = front]_vars

\* The Search button of a card whose checkbox is off has just opened a window, while
\* the window of another source was open; no timer is pending.
C17_Witness ==
  /\ lastCall.op = "searchOne"
  /\ lastCall.info = "opened"
  /\ ~IsSelected(selectedEngines, lastCall.id)
  /\ HasLiveHandle(lastCall.id)
  /\ front = searchWindows[lastCall.id]
  /\ \E k \in DOMAIN searchWindows : k # lastCall.id /\ HasLiveHandle(k)
  /\ timers = <<>>

(***************************************************************************)
(* Properties of the URLs handed to the host                               *)
(***************************************************************************)
\* The percent-encoding of the queries the user types, written out.
PercentEncoded(q) ==
  CASE q = <<"a">> -> <<"a">>
    [] q = <<"a", " ", "b">> -> <<"a", "%20", "b">>
    [] q = <<" ">> -> <<"%20">>
    [] OTHER -> <<"?">>

\* The URL template of each source as it was entered, a "%s" included.
TemplateOf(source) ==
  CASE ~source.isCustom ->
         (CHOOSE b \in {AllDefaultSearchSources[n] : n \in 1..Len(AllDefaultSearchSources)} :
            b.id = source.id).url
    [] source.name = "X" -> "https://x.com/?q="
    [] source.name = "Y" -> "https://example.com/search?q=%s"
    [] OTHER -> "?"

PendingFor(queue, source, query) ==
  Cardinality({n \in 1..Len(queue) : queue[n].source = source /\ queue[n].query = query})

\* A callback for source id is pending.
Pending(id) == \E n \in 1..Len(timers) : timers[n].source.id = id

\* The step that led here was a callback's display for source id.
Displayed(id) == lastCall.op = "timer" /\ lastCall.id = id

\* The ids of the built-in sources of the registry.
BuiltinIds == {AllDefaultSearchSources[n].id : n \in 1..NumBuiltins}

C20_ToggleChangesOnlyItsEntry ==
  [][\A i \in 1..Len(searchSources) :
       (lastCall'.op = "toggle" /\ handleEngineToggle(searchSources[i].id)) =>
         LET id == searchSources[i].id
         IN /\ ValueOf(selectedEngines', id) =
                 (IF ValueOf(selectedEngines, id) = "true" THEN "false" ELSE "true")
            /\ DOMAIN selectedEngines' = DOMAIN selectedEngines \cup {id}
            /\ \A k \in DOMAIN selectedEngines \ {id} : selectedEngines'[k] = selectedEngines[k]
            /\ customSources' = customSources
            /\ searchWindows' = searchWindows
            /\ wins' = wins]_vars

\* The checkbox of a source without a preference entry has just been switched: the
\* entry now exists and is true, next to other entries, a custom source and an open
\* window.
C20_Witness ==
  /\ lastCall.op = "toggle"
  /\ lastCall.info = "undefined"
  /\ selectedEngines[lastCall.id] = TRUE
  /\ Cardinality(DOMAIN selectedEngines) >= 3
  /\ customSources # <<>>
  /\ \E id \in DOMAIN searchWindows : HasLiveHandle(id)

(***************************************************************************)
(* Properties of what a callback captured                                  *)
(***************************************************************************)
\* The source record and the query each pending callback holds, in queue order.
Captured(queue) ==
  [n \in 1..Len(queue) |-> [source |-> queue[n].source, query |-> queue[n].query]]

\* This step changed the query, the selection or the registry.
FormEdited ==
  \/ searchQuery' # searchQuery
  \/ selectedEngines' # selectedEngines
  \/ customSources' # customSources

\* C21: a callback of searchAll displays the query and the source record of the
\* moment searchAll was invoked.  searchAll gives each new callback the query of that
\* moment and a selected record of the registry of that moment; a step that edits
\* the query, toggles a source or deletes a source leaves the record and the query
\* of every pending callback as they are; and the callback, when it runs, targets
\* the id of its record and hands the host the URL of its record and its query,
\* whatever the query, the selection and the registry have become.
C21_CallbackDisplaysWhatSearchAllCaptured ==
  [][/\ handleSearch =>
          \A n \in 1..Len(timers') :
            PendingFor(timers', timers'[n].source, timers'[n].query) >
              PendingFor(timers, timers'[n].source, timers'[n].query) =>
                /\ timers'[n].query = searchQuery
                /\ \E i \in SelectedPositions : timers'[n].source = searchSources[i]
     /\ FormEdited => Captured(timers') = Captured(timers)
     /\ (\E g \in BOOLEAN : TimerFires(g)) =>
          LET source == Head(timers).source
              url == <<TemplateOf(source)>> \o PercentEncoded(Head(timers).query)
          IN /\ lastCall'.id = source.id
             /\ \A w \in 1..Len(wins') :
                  (w > Len(wins) \/ wins'[w] # wins[w]) =>
                    /\ wins'[w].name = "search_" \o source.id
                    /\ wins'[w].url = url
             /\ \A id \in DOMAIN searchWindows' :
                  (id \notin DOMAIN searchWindows \/ searchWindows'[id] # searchWindows[id]) =>
                    id = source.id
             /\ (source.id \in DOMAIN searchWindows' /\ searchWindows'[source.id] # 0) =>
                  wins'[searchWindows'[source.id]].url = url]_vars

\* The last callback of a search for "a" has just opened the window of the custom
\* source, after the user deleted that source, switched the other source of the
\* search off and typed another query: both windows show the query "a".
C21_Witness ==
  /\ lastCall.op = "timer"
  /\ lastCall.info = "opened"
  /\ timers = <<>>
  /\ searchQuery = <<"a", " ", "b">>
  /\ customSources = <<>>
  /\ HasLiveHandle(lastCall.id)
  /\ wins[searchWindows[lastCall.id]].url = <<"https://x.com/?q=", "a">>
  /\ \E k \in BuiltinIds :
       /\ ~IsSelected(selectedEngines, k)
       /\ HasLiveHandle(k)
       /\ wins[searchWindows[k]].url = <<TemplateOf([id |-> k, isCustom |-> FALSE]), "a">>

(***************************************************************************)
(* Properties of two searches in a row                                     *)
(***************************************************************************)
\* Every pending callback has run, the user closed no window and the host refused
\* no open.
AllDisplaysDone ==
  /\ timers = <<>>
  /\ \A w \in 1..Len(wins) : ~wins[w].closed
  /\ \A id \in DOMAIN searchWindows : searchWindows[id] # 0

\* C22: after searchAll(q1) and, later, searchAll(q2), with any changes of the
\* selection in between, once every callback has run (the user closed no window, the
\* host refused no open) every source selected at the second search has a tracked
\* window that shows the URL of q2.
C22_SecondSearchWins ==
  (Len(searches) = 2 /\ AllDisplaysDone) =>
    \A i \in 1..Len(searchSources) :
      searchSources[i].id \in searches[2].selected =>
        /\ HasLiveHandle(searchSources[i].id)
        /\ wins[searchWindows[searchSources[i].id]].url =
             <<TemplateOf(searchSources[i])>> \o PercentEncoded(searches[2].query)
====
